---- MODULE Spec2Model ----
(***************************************************************************)
(* A model of eolearn/io/processing_api.py: the Sentinel Hub processing    *)
(* API input tasks SentinelHubProcessingInput and SentinelHubProcessingDEM.*)
(*                                                                         *)
(* Dates and time differences are integers (seconds).  Python dicts and    *)
(* lists that the code mutates in place live in a heap of cells, so that   *)
(* sharing between a request template and its copies is observable.  numpy *)
(* arrays are a shape plus the flat C-order sequence of their elements.    *)
(* Float quantities are fixed point: maxcc in thousandths, normalization   *)
(* factors in 1/100000, stored float32 values in 1/10000.                  *)
(***************************************************************************)
EXTENDS Integers, Sequences, FiniteSets, TLC

VARIABLES
    pc,             \* position of the running operation
    self,           \* the task object's fields, set by __init__
    bbox,           \* execute's bbox argument
    time_interval,  \* execute's time_interval argument
    eopatch,        \* the caller's EOPatch (None when execute gets none)
    wfs_dates,      \* what WebFeatureService.get_dates() returned
    size_xy,        \* (size_x, size_y) resolved by execute
    dates,          \* the value get_dates returned
    requests,       \* addresses of the payloads request_from_date returned
    images,         \* the (img, norm_factor) pairs of line 191
    result,         \* the value the operation returned
    error,          \* the exception the operation raised, or NoError
    heap,           \* the cells of the request dicts
    request         \* address of the request template

vars == <<pc, self, bbox, time_interval, eopatch, wfs_dates, size_xy, dates,
          requests, images, result, error, heap, request>>

\* Python's None, and an optional value: <<>> is None, <<x>> is the value x
None == <<>>
Some(x) == <<x>>
NoError == "no exception"

----------------------------------------------------------------------------
(* Bounds of the model.                                                    *)

MaxDates == 4       \* longest list the date-discovery service returns
MaxDate == 4        \* dates range over 0..MaxDate
MaxDelta == 2       \* time_difference ranges over 0..MaxDelta
MaxExtent == 4      \* bbox width and height range over 1..MaxExtent
MaxRes == 3         \* resolution ranges over 1..MaxRes
MaxData == 2        \* input-data entries of a request template, 1..MaxData
MaxRequests == 2    \* payloads built from one template
ReqMaxDate == 1     \* dates of those payloads range over 0..ReqMaxDate
ExecMaxDates == 2   \* longest list of discovered dates in a whole execute
ExecMaxDate == 2    \* dates of a whole execute range over 0..ExecMaxDate

----------------------------------------------------------------------------
(* Sequence helpers.                                                       *)

RECURSIVE SeqsUpTo(_, _)
SeqsUpTo(S, n) ==
    IF n = 0 THEN {<<>>}
    ELSE LET shorter == SeqsUpTo(S, n - 1)
         IN  shorter \cup {Append(s, x) : s \in {t \in shorter : Len(t) = n - 1}, x \in S}

RECURSIVE Insert(_, _)
Insert(x, s) ==
    IF s = <<>> THEN <<x>>
    ELSE IF x < Head(s) THEN <<x>> \o s
    ELSE <<Head(s)>> \o Insert(x, Tail(s))

\* sorted(dates), line 120
RECURSIVE sorted(_)
sorted(s) == IF s = <<>> THEN <<>> ELSE Insert(Head(s), sorted(Tail(s)))

----------------------------------------------------------------------------
(* get_dates, lines 108-122.                                               *)

\* the comparison of line 121: d2 - d1 > self.time_difference
GapExceedsTies(d1, d2, td) == d2 - d1 >= td
GapExceeds(d1, d2, td) == d2 - d1 > td

\* [d2 for d1, d2 in zip(dates[:-1], dates[1:]) if d2 - d1 > td], line 121:
\* d1 is the date just before d2 in the sorted list.
RECURSIVE ZipFilter(_, _, _)
ZipFilter(s, i, td) ==
    IF i > Len(s) THEN <<>>
    ELSE (IF GapExceeds(s[i - 1], s[i], td) THEN <<s[i]>> ELSE <<>>)
         \o ZipFilter(s, i + 1, td)

\* lines 117-122: the result, or the exception of line 118
get_dates(found, td) ==
    IF Len(found) = 0
    THEN [raised |-> "ValueError: No available images for requested time range",
          value |-> <<>>]
    ELSE LET s == sorted(found)
         IN  [raised |-> NoError, value |-> <<s[1]>> \o ZipFilter(s, 2, td)]

----------------------------------------------------------------------------
(* The task object, __init__ lines 40-52.                                  *)

UTM == "UTM_33N"
WGS84 == "WGS84"

\* bbox.crs.is_utm(), line 128
is_utm(crs) == crs = UTM

\* self.all_bands, line 52: the bands, then the source names of additional_data
all_bands(task) ==
    task.bands \o [i \in 1..Len(task.additional_data) |-> task.additional_data[i].src]

DefaultSelf ==
    [class |-> "SentinelHubProcessingInput", size |-> None, resolution |-> None,
     bands_feature |-> None, bands |-> <<>>, additional_data |-> <<>>,
     maxcc |-> 1000, time_difference |-> 1]

DefaultBBox == [crs |-> UTM, min_x |-> 0, min_y |-> 0, max_x |-> 1, max_y |-> 1]

----------------------------------------------------------------------------
(* size_from_resolution, lines 124-138.                                    *)

\* the float quotient a / b of lines 132-133, kept exact as quotient and rest
Divide(a, b) == [quot |-> a \div b, rest |-> a % b]

\* float.is_integer(), line 135
is_integer(q) == q.rest = 0

\* int(float), line 138
int(q) == q.quot

\* round(x), to the nearest integer and to the even one from a half
round(q, den) ==
    IF 2 * q.rest < den THEN q.quot
    ELSE IF 2 * q.rest > den THEN q.quot + 1
    ELSE IF q.quot % 2 = 0 THEN q.quot ELSE q.quot + 1

size_from_resolution_rounding(box, resolution) ==
    IF ~is_utm(box.crs)
    THEN [raised |-> "ValueError: Only UTM crs is supported.", value |-> <<0, 0>>]
    ELSE LET lst == <<box.min_x, box.min_y, box.max_x, box.max_y>>
             size_x == Divide(lst[3] - lst[1], resolution)
             size_y == Divide(lst[4] - lst[2], resolution)
         IN  [raised |-> NoError, value |-> <<int(size_x), int(size_y)>>]

size_from_resolution(box, resolution) ==
    IF ~is_utm(box.crs)
    THEN [raised |-> "ValueError: Only UTM crs is supported.", value |-> <<0, 0>>]
    ELSE LET lst == <<box.min_x, box.min_y, box.max_x, box.max_y>>
             size_x == Divide(lst[3] - lst[1], resolution)
             size_y == Divide(lst[4] - lst[2], resolution)
         IN  IF ~(is_integer(size_x) /\ is_integer(size_y))
             THEN [raised |-> "ValueError: BBox width and height in CRS units are not multiples of resolution.",
                   value |-> <<0, 0>>]
             ELSE [raised |-> NoError, value |-> <<int(size_x), int(size_y)>>]

\* execute lines 158-167: size_x and size_y stay unbound when neither size nor
\* resolution is given, and line 167 reads them
ResolvedSize(task, box) ==
    IF task.size # None THEN [raised |-> NoError, value |-> task.size[1]]
    ELSE IF task.resolution # None THEN size_from_resolution(box, task.resolution[1])
    ELSE [raised |-> "UnboundLocalError: size_x", value |-> <<0, 0>>]

----------------------------------------------------------------------------
(* Request dicts.  A cell is a dict or a list: a function from keys to     *)
(* values; a value is [ref |-> address] for a nested dict or list, or a    *)
(* scalar.  heap[a] is the cell at address a.                              *)

IsRef(v) == "ref" \in DOMAIN v

Refs(cell) == {cell[k].ref : k \in {x \in DOMAIN cell : IsRef(cell[x])}}

RECURSIVE Reach(_, _)
Reach(h, frontier) ==
    LET next == frontier \cup UNION {Refs(h[a]) : a \in frontier}
    IN  IF next = frontier THEN frontier ELSE Reach(h, next)

\* the nested value an address stands for
RECURSIVE Tree(_, _)
Tree(h, a) ==
    [k \in DOMAIN h[a] |-> IF IsRef(h[a][k]) THEN Tree(h, h[a][k].ref) ELSE h[a][k]]

\* d[key] = value on the dict at address a
Store(h, a, key, value) == [h EXCEPT ![a] = (key :> value) @@ @]

\* list keys
Item(i) == <<"item", i>>

\* generate_evalscript, lines 76-106: the input bands, the output band count
\* and the samples evaluatePixel returns, in order
generate_evalscript(task) ==
    [script |-> [bands |-> all_bands(task),
                 num_bands |-> Len(all_bands(task)),
                 samples |-> [i \in 1..Len(all_bands(task)) |-> <<"sample", all_bands(task)[i]>>]]]

\* the time string of a template no date was set in
Unset == [str |-> [iso |-> 0, suffix |-> "unset"]]

\* shr.body(...) of lines 163-169 with n input-data entries (execute passes
\* one): the cells of the template, the request dict first
Body(task, box, size, n) ==
    <<[input |-> [ref |-> 2],
       output |-> [width |-> size[1], height |-> size[2],
                   responses |-> <<"default", "userdata">>],
       evalscript |-> generate_evalscript(task)],
      [bounds |-> [crs |-> box.crs,
                   bbox |-> <<box.min_x, box.min_y, box.max_x, box.max_y>>],
       data |-> [ref |-> 3]],
      [k \in {Item(i) : i \in 1..n} |-> [ref |-> 1 + 3 * k[2]]]>>
    \o [j \in 1..(3 * n) |->
          CASE j % 3 = 1 -> [type |-> [str |-> "S2L1C"], dataFilter |-> [ref |-> 3 + j + 1]]
            [] j % 3 = 2 -> [timeRange |-> [ref |-> 3 + j + 1]]
            [] OTHER     -> [from |-> Unset, to |-> Unset]]

\* copy.deepcopy(request), line 65: every cell reachable from a is copied to a
\* fresh address and the references inside the copies point to the copies
ShallowCopy(h, a) == [heap |-> Append(h, h[a]), ref |-> Len(h) + 1]

deepcopy(h, a) ==
    LET R == Reach(h, {a})
        New(b) == Len(h) + Cardinality({c \in R : c <= b})
        Old(i) == CHOOSE b \in R : New(b) = Len(h) + i
        Copy(cell) == [k \in DOMAIN cell |->
                         IF IsRef(cell[k]) THEN [ref |-> New(cell[k].ref)] ELSE cell[k]]
    IN  [heap |-> h \o [i \in 1..Cardinality(R) |-> Copy(h[Old(i)])], ref |-> New(a)]

\* datetime.isoformat() + 'Z', line 63
isoformat(d) == [iso |-> d]
PlusZ(t) == [str |-> [iso |-> t.iso, suffix |-> "Z"]]

\* int(maxcc * 100), line 72; maxcc is in thousandths
CloudPercent(maxcc) == [int |-> int(Divide(maxcc * 100, 1000))]

\* the loop body of lines 67-72 on the data entry at address entry
SetFilters(h, entry, time_from, time_to, maxcc) ==
    LET df == h[entry]["dataFilter"].ref
        time_range == h[df]["timeRange"].ref
        h1 == Store(h, time_range, "from", time_from)
        h2 == Store(h1, time_range, "to", time_to)
    IN  Store(h2, df, "maxCloudCoverage", CloudPercent(maxcc))

\* for data in request['input']['data'], lines 66-72, from entry i on
RECURSIVE ForData(_, _, _, _, _, _)
ForData(h, lst, i, time_from, time_to, maxcc) ==
    IF Item(i) \notin DOMAIN h[lst] THEN h
    ELSE ForData(SetFilters(h, h[lst][Item(i)].ref, time_from, time_to, maxcc),
                 lst, i + 1, time_from, time_to, maxcc)

\* request_from_date, lines 54-74: the heap after the call and the address of
\* the payload it returns
request_from_date(h, req, date, maxcc, td) ==
    LET date_from == date - td
        date_to == date + td
        time_from == PlusZ(isoformat(date_from))
        time_to == PlusZ(isoformat(date_to))
        c == deepcopy(h, req)
        lst == c.heap[c.heap[c.ref]["input"].ref]["data"].ref
    IN  [heap |-> ForData(c.heap, lst, 1, time_from, time_to, maxcc), ref |-> c.ref]

\* the data entries of the request at address a, as nested values
DataEntries(h, a) ==
    LET lst == Tree(h, a)["input"]["data"]
    IN  {lst[k] : k \in DOMAIN lst}

----------------------------------------------------------------------------
(* numpy arrays: [shape, data], data the elements in C order.              *)

RECURSIVE Product(_)
Product(shape) == IF shape = <<>> THEN 1 ELSE Head(shape) * Product(Tail(shape))

Min(a, b) == IF a < b THEN a ELSE b

\* np.atleast_3d(img), line 203: an h x w image becomes h x w x 1
atleast_3d(img) ==
    IF Len(img.shape) = 2 THEN [shape |-> img.shape \o <<1>>, data |-> img.data] ELSE img

\* np.atleast_3d(img)[..., idx], line 203: channel idx (from 0) of the image;
\* IndexError when the image has no such channel
Channel(img, idx) ==
    LET im == atleast_3d(img)
        c == im.shape[3]
    IN  IF idx >= c
        THEN [raised |-> "IndexError: index out of bounds", value |-> <<>>]
        ELSE [raised |-> NoError,
              value |-> [shape |-> <<im.shape[1], im.shape[2]>>,
                         data |-> [p \in 1..(im.shape[1] * im.shape[2]) |->
                                     im.data[(p - 1) * c + idx + 1]]]]

\* img[..., slice(img_bands)], line 209: the first k entries along the LAST
\* axis of the image (its channels when it is h x w x c, its columns when it
\* is h x w), or all of them when there are fewer
SliceBands(img, k) ==
    LET c == img.shape[Len(img.shape)]
        m == Min(c, k)
        outer == SubSeq(img.shape, 1, Len(img.shape) - 1)
    IN  [shape |-> outer \o <<m>>,
         data |-> [n \in 1..(Product(outer) * m) |->
                     img.data[((n - 1) \div m) * c + ((n - 1) % m) + 1]]]

RECURSIVE Concat(_)
Concat(arrs) == IF arrs = <<>> THEN <<>> ELSE Head(arrs).data \o Concat(Tail(arrs))

\* np.asarray(list of arrays), lines 204 and 210: arrays of one shape stack
\* along a new first axis; arrays of different shapes give no numeric array
asarray(arrs) ==
    IF \E i \in 1..Len(arrs) : arrs[i].shape # arrs[1].shape
    THEN [raised |-> "ValueError: inhomogeneous shape", value |-> <<>>]
    ELSE [raised |-> NoError,
          value |-> [shape |-> <<Len(arrs)>> \o arrs[1].shape, data |-> Concat(arrs)]]

\* ndarray.reshape(*shape), lines 204 and 210
reshape(arr, shape) ==
    IF Product(shape) # Len(arr.data)
    THEN [raised |-> "ValueError: cannot reshape array", value |-> <<>>]
    ELSE [raised |-> NoError, value |-> [shape |-> shape, data |-> arr.data]]

\* list.index, line 202, counting from 0
index(lst, x) == (CHOOSE i \in 1..Len(lst) : lst[i] = x /\ \A j \in 1..(i - 1) : lst[j] # x) - 1

\* element (t, r, c, j), counted from 0, of a layer of shape (T, H, W, C)
At(layer, t, r, c, j) ==
    layer.data[((t * layer.shape[2] + r) * layer.shape[3] + c) * layer.shape[4] + j + 1]

----------------------------------------------------------------------------
(* The download client and the service behind it, line 187 and line 320.   *)

BandNo(band) ==
    CASE band = "B01" -> 0
      [] band = "B02" -> 1
      [] band = "dataMask" -> 2
      [] band = "SCL" -> 3
      [] band = "DEM" -> 4

\* the UINT16 sample of a band at a date and pixel
Scene(date, band, r, c) ==
    CASE band \in {"B01", "B02"} -> 100 + 50 * BandNo(band) + 10 * date * (r + c) + c
      [] band = "dataMask" -> (date + r + c) % 2
      [] band = "SCL" -> (date + r + 2 * c) % 3
      [] band = "DEM" -> IF c = 0 THEN 65436 ELSE 120

\* the h x w x c image the service computes for a date with the samples of an
\* evalscript
ServerImage(date, samples, h, w, c) ==
    [shape |-> <<h, w, c>>,
     data |-> [n \in 1..(h * w * c) |->
                 Scene(date, samples[((n - 1) % c) + 1][2],
                       ((n - 1) \div c) \div w, ((n - 1) \div c) % w)]]

\* userdata.json: absent, an empty object, an object without norm_factor, or
\* norm_factor in 1/100000 (0.5, 2.0 and 0.00003)
Metas ==
    {None, Some(<<>>), Some([scenes |-> 1]), Some([norm_factor |-> 50000]),
     Some([norm_factor |-> 200000]), Some([norm_factor |-> 3])}

\* the decoded tif of a one-channel image is a 2-d array, as line 203 and
\* line 328 expect
Squeeze(img) == [shape |-> <<img.shape[1], img.shape[2]>>, data |-> img.data]

\* a response is what was asked for (h x w x c, or h x w when the script has
\* one output band), or lacks the last channel of the script, or has one row
\* too many
Answers(num_bands) ==
    ({"ok"} \X Metas) \cup ({"missing_band", "wrong_shape"} \X {None})
    \cup (IF num_bands = 1 THEN {"ok_2d"} \X Metas ELSE {})

\* the response to the payload at address a
Response(h, a, answer) ==
    LET payload == Tree(h, a)
        filter == payload["input"]["data"][Item(1)]["dataFilter"]
        date == (filter["timeRange"]["from"].str.iso + filter["timeRange"]["to"].str.iso) \div 2
        script == payload["evalscript"].script
        rows == payload["output"].height + (IF answer[1] = "wrong_shape" THEN 1 ELSE 0)
        chans == IF answer[1] = "missing_band" /\ script.num_bands > 0
                 THEN script.num_bands - 1 ELSE script.num_bands
        img == ServerImage(date, script.samples, rows, payload["output"].width, chans)
    IN  [tif |-> IF answer[1] = "ok_2d" THEN Squeeze(img) ELSE img,
         userdata |-> answer[2]]

----------------------------------------------------------------------------
(* Response assembly, lines 190-220.  An EOPatch is its timestamp, bbox,   *)
(* features (a dict from (type, name) to an array) and meta_info.          *)

EmptyPatch == [timestamp |-> <<>>, bbox |-> None, features |-> <<>>, meta_info |-> <<>>]

\* bool(dict): an empty dict is false
Truthy(d) == DOMAIN d # {}

\* meta.get('norm_factor', 0) if meta else 0, line 191
NormFactorDefaultOne(meta) ==
    IF meta # None /\ Truthy(meta[1])
    THEN (IF "norm_factor" \in DOMAIN meta[1] THEN meta[1]["norm_factor"] ELSE 100000)
    ELSE 100000

NormFactor(meta) ==
    IF meta # None /\ Truthy(meta[1])
    THEN (IF "norm_factor" \in DOMAIN meta[1] THEN meta[1]["norm_factor"] ELSE 0)
    ELSE 0

\* shape = len(dates), size_y, size_x, line 198
ShapeXY(ds, size) == <<Len(ds), size[1], size[2]>>

Shape(ds, size) == <<Len(ds), size[2], size[1]>>

\* .astype(np.bool), line 204
AsBool(arr) == [shape |-> arr.shape, dtype |-> "bool",
                data |-> [n \in 1..Len(arr.data) |-> arr.data[n] # 0]]

\* .astype(np.float32) * norm_factor, line 209; the product is in 1/100000
Scaled(arr, norm_factor) ==
    [shape |-> arr.shape, data |-> [n \in 1..Len(arr.data) |-> arr.data[n] * norm_factor]]

\* np.round(array, 4), line 210: from 1/100000 to 1/10000, half to even
Round4(arr) == [shape |-> arr.shape, dtype |-> "float32",
                data |-> [n \in 1..Len(arr.data) |-> round(Divide(arr.data[n], 10), 10)]]

\* idx = self.all_bands.index(f_name_src), line 202
AuxIndexByEntry(task, i) == i - 1

AuxIndex(task, i) == index(all_bands(task), task.additional_data[i].src)

\* lines 202-204 for entry i of additional_data: the array to store, or the
\* exception
AuxLayer(task, imgs, shape, i) ==
    LET idx == AuxIndex(task, i)
        chans == [t \in 1..Len(imgs) |-> Channel(imgs[t].img, idx)]
    IN  IF \E t \in 1..Len(imgs) : chans[t].raised # NoError
        THEN [raised |-> "IndexError: index out of bounds", value |-> <<>>]
        ELSE LET stacked == asarray([t \in 1..Len(imgs) |-> chans[t].value])
             IN  IF stacked.raised # NoError THEN stacked
                 ELSE LET shaped == reshape(stacked.value, shape \o <<1>>)
                      IN  IF shaped.raised # NoError THEN shaped
                          ELSE [raised |-> NoError, value |-> AsBool(shaped.value)]

\* the loop of lines 201-204 from entry i on: each array is stored as soon as
\* it is computed
RECURSIVE AuxLoop(_, _, _, _, _)
AuxLoop(task, imgs, shape, patch, i) ==
    IF i > Len(task.additional_data) THEN [raised |-> NoError, patch |-> patch]
    ELSE LET layer == AuxLayer(task, imgs, shape, i)
             key == <<task.additional_data[i].type, task.additional_data[i].dst>>
         IN  IF layer.raised # NoError THEN [raised |-> layer.raised, patch |-> patch]
             ELSE AuxLoop(task, imgs, shape,
                          [patch EXCEPT !.features = (key :> layer.value) @@ @], i + 1)

\* lines 208-210: the array to store under bands_feature, or the exception
BandsLayer(task, imgs, shape) ==
    LET img_bands == Len(task.bands)
        stacked == asarray([t \in 1..Len(imgs) |->
                              Scaled(SliceBands(imgs[t].img, img_bands), imgs[t].norm_factor)])
    IN  IF stacked.raised # NoError THEN stacked
        ELSE LET shaped == reshape(stacked.value, shape \o <<img_bands>>)
             IN  IF shaped.raised # NoError THEN shaped
                 ELSE [raised |-> NoError, value |-> Round4(shaped.value)]

\* lines 212-218
Provenance(task, size, interval) ==
    [service_type |-> "processing", size_x |-> size[1], size_y |-> size[2],
     resolution |-> task.resolution, maxcc |-> task.maxcc,
     time_interval |-> interval, time_difference |-> task.time_difference]

\* lines 190-220 on the EOPatch patch: the exception raised, and the EOPatch
\* as the writes made so far left it
Assemble(task, box, interval, size, ds, responses, patch) ==
    LET imgs == [t \in 1..Len(responses) |->
                   [img |-> responses[t].tif,
                    norm_factor |-> NormFactor(responses[t].userdata)]]
        p1 == [patch EXCEPT !.timestamp = ds, !.bbox = Some(box)]
        shape == Shape(ds, size)
        aux == AuxLoop(task, imgs, shape, p1, 1)
    IN  IF aux.raised # NoError THEN aux
        ELSE LET layer == IF task.bands # <<>> THEN BandsLayer(task, imgs, shape)
                          ELSE [raised |-> NoError, value |-> <<>>]
                 p2 == IF task.bands # <<>> /\ layer.raised = NoError
                       THEN [aux.patch EXCEPT
                               !.features = (task.bands_feature[1] :> layer.value) @@ @]
                       ELSE aux.patch
             IN  IF layer.raised # NoError THEN [raised |-> layer.raised, patch |-> p2]
                 ELSE [raised |-> NoError,
                       patch |-> [p2 EXCEPT
                                    !.meta_info = Provenance(task, size, interval) @@ @]]

----------------------------------------------------------------------------
(* Steps of SentinelHubProcessingInput.execute, lines 140-220.             *)

Raise(e) ==
    /\ pc' = "raised"
    /\ error' = e

\* lines 158-178: the grid size, then the request template
ResolveSize ==
    /\ pc = "resolve_size"
    /\ self.class = "SentinelHubProcessingInput"
    /\ LET r == ResolvedSize(self, bbox)
       IN  IF r.raised # NoError
           THEN /\ Raise(r.raised)
                /\ UNCHANGED <<size_xy, heap, request>>
           ELSE /\ size_xy' = r.value
                /\ heap' = Body(self, bbox, r.value, 1)
                /\ request' = 1
                /\ pc' = "get_dates"
                /\ UNCHANGED error
    /\ UNCHANGED <<self, bbox, time_interval, eopatch, wfs_dates, dates, requests,
                   images, result>>

\* line 180, get_dates of lines 108-122; the date-discovery service answers
\* with any list of Lists
GetDates(Lists) ==
    /\ pc = "get_dates"
    /\ \E found \in Lists :
          /\ wfs_dates' = found
          /\ LET r == get_dates(found, self.time_difference)
             IN  IF r.raised # NoError
                 THEN /\ Raise(r.raised)
                      /\ UNCHANGED dates
                 ELSE /\ dates' = r.value
                      /\ pc' = "build_requests"
                      /\ UNCHANGED error
    /\ UNCHANGED <<self, bbox, time_interval, eopatch, size_xy, requests, images,
                   result, heap, request>>

\* lines 181-182: one payload per date, in the order of the dates
RECURSIVE RequestsFrom(_, _, _, _, _)
RequestsFrom(h, req, ds, maxcc, td) ==
    IF ds = <<>> THEN [heap |-> h, refs |-> <<>>]
    ELSE LET r == request_from_date(h, req, Head(ds), maxcc, td)
             rest == RequestsFrom(r.heap, req, Tail(ds), maxcc, td)
         IN  [heap |-> rest.heap, refs |-> <<r.ref>> \o rest.refs]

BuildRequests ==
    /\ pc = "build_requests"
    /\ LET r == RequestsFrom(heap, request, dates, self.maxcc, self.time_difference)
       IN  /\ heap' = r.heap
           /\ requests' = r.refs
    /\ pc' = "download"
    /\ UNCHANGED <<self, bbox, time_interval, eopatch, wfs_dates, size_xy, dates,
                   images, result, error, request>>

\* line 187: the client returns one response per request, in the order the
\* requests were submitted
Download ==
    /\ pc = "download"
    /\ \E answers \in [1..Len(requests) -> Answers(Len(all_bands(self)))] :
          images' = [t \in 1..Len(requests) |-> Response(heap, requests[t], answers[t])]
    /\ pc' = "assemble"
    /\ UNCHANGED <<self, bbox, time_interval, eopatch, wfs_dates, size_xy, dates,
                   requests, result, error, heap, request>>

\* lines 190-220: the EOPatch the caller passed is written in place
AssembleResponses ==
    /\ pc = "assemble"
    /\ LET patch == IF eopatch = None THEN EmptyPatch ELSE eopatch[1]
           r == Assemble(self, bbox, time_interval, size_xy, dates, images, patch)
       IN  /\ eopatch' = IF eopatch = None THEN None ELSE Some(r.patch)
           /\ IF r.raised # NoError
              THEN /\ Raise(r.raised)
                   /\ UNCHANGED result
              ELSE /\ result' = Some(r.patch)
                   /\ pc' = "done"
                   /\ UNCHANGED error
    /\ UNCHANGED <<self, bbox, time_interval, wfs_dates, size_xy, dates, requests,
                   images, heap, request>>

----------------------------------------------------------------------------
(* SentinelHubProcessingDEM, lines 223-330.                                *)

\* generate_evalscript, lines 259-277
generate_evalscript_DEM ==
    [script |-> [bands |-> <<"DEM">>, num_bands |-> 1, samples |-> <<<<"sample", "DEM">>>>]]

\* shr.body(...) of lines 300-305
BodyDEM(box, size) ==
    <<[input |-> [ref |-> 2],
       output |-> [width |-> size[1], height |-> size[2],
                   responses |-> <<"default", "userdata">>],
       evalscript |-> generate_evalscript_DEM],
      [bounds |-> [crs |-> box.crs,
                   bbox |-> <<box.min_x, box.min_y, box.max_x, box.max_y>>],
       data |-> [ref |-> 3]],
      (Item(1) :> [ref |-> 4]),
      [type |-> [str |-> "DEM"]]>>

\* the response to the DEM request at address a: a single-band tif is a 2-d array
ResponseDEM(h, a) ==
    LET payload == Tree(h, a)
    IN  [tif |-> Squeeze(ServerImage(0, payload["evalscript"].script.samples,
                                     payload["output"].height, payload["output"].width, 1)),
         userdata |-> None]

\* .astype(np.int16) of a UINT16 sample, line 328
ToInt16(v) == IF v % 65536 >= 32768 THEN (v % 65536) - 65536 ELSE v % 65536

\* tif[..., np.newaxis].astype(np.int16), line 328
NewAxisInt16(tif) ==
    [shape |-> tif.shape \o <<1>>, dtype |-> "int16",
     data |-> [n \in 1..Len(tif.data) |-> ToInt16(tif.data[n])]]

\* execute, lines 297-330
DEMExecute ==
    /\ pc = "resolve_size"
    /\ self.class = "SentinelHubProcessingDEM"
    /\ IF self.size = None
       THEN /\ Raise("TypeError: cannot unpack non-iterable NoneType object")
            /\ UNCHANGED <<eopatch, size_xy, images, result, heap, request>>
       ELSE LET h == BodyDEM(bbox, self.size[1])
                image == ResponseDEM(h, 1)
                patch == IF eopatch = None THEN EmptyPatch ELSE eopatch[1]
                p1 == [patch EXCEPT !.bbox = Some(bbox)]
                p2 == [p1 EXCEPT !.features =
                                   (self.bands_feature[1] :> NewAxisInt16(image.tif)) @@ @]
            IN  /\ size_xy' = self.size[1]
                /\ heap' = h
                /\ request' = 1
                /\ images' = <<image>>
                /\ eopatch' = IF eopatch = None THEN None ELSE Some(p2)
                /\ result' = Some(p2)
                /\ pc' = "done"
                /\ UNCHANGED error
    /\ UNCHANGED <<self, bbox, time_interval, wfs_dates, dates, requests>>

----------------------------------------------------------------------------
(* Whole executions of both tasks.                                         *)

BandsChoices == {<<>>, <<"B01">>, <<"B01", "B02">>}

AuxChoices ==
    {<<>>,
     <<[type |-> "MASK", src |-> "dataMask", dst |-> "IS_DATA"]>>,
     <<[type |-> "MASK", src |-> "dataMask", dst |-> "IS_DATA"],
       [type |-> "MASK", src |-> "SCL", dst |-> "SCL"]>>}

ExecBBoxes == {[DefaultBBox EXCEPT !.crs = c, !.max_x = 2] : c \in {UTM, WGS84}}

ExecSizes == {None, Some(<<2, 1>>)}

ExecResolutions == {None, Some(1)}

\* an EOPatch the caller filled before the call
OldPatch ==
    [timestamp |-> <<9>>,
     bbox |-> Some([DefaultBBox EXCEPT !.max_x = 9]),
     features |-> (<<"MASK", "IS_DATA">> :>
                     [shape |-> <<1, 1, 2, 1>>, dtype |-> "bool", data |-> <<TRUE, FALSE>>]),
     meta_info |-> [service_type |-> "wms"]]

InputTasks ==
    {[DefaultSelf EXCEPT !.size = sz, !.resolution = res, !.bands = b,
                         !.bands_feature = IF b = <<>> THEN None ELSE Some(<<"DATA", "BANDS">>),
                         !.additional_data = aux] :
        sz \in ExecSizes, res \in ExecResolutions, b \in BandsChoices, aux \in AuxChoices}

DEMTasks ==
    {[DefaultSelf EXCEPT !.class = "SentinelHubProcessingDEM", !.size = sz,
                         !.bands_feature = Some(<<"DATA_TIMELESS", "DEM">>)] :
        sz \in ExecSizes}

ExecDateLists == SeqsUpTo(0..ExecMaxDate, ExecMaxDates)

Init ==
    /\ pc = "resolve_size"
    /\ self \in InputTasks \cup DEMTasks
    /\ bbox \in ExecBBoxes
    /\ time_interval = <<0, ExecMaxDate>>
    /\ eopatch \in {None, Some(OldPatch)}
    /\ wfs_dates = <<>>
    /\ size_xy = <<0, 0>>
    /\ dates = <<>>
    /\ requests = <<>>
    /\ images = <<>>
    /\ result = None
    /\ error = NoError
    /\ heap = <<>>
    /\ request = 0

GetExecDates == GetDates(ExecDateLists)

Next ==
    \/ ResolveSize
    \/ GetExecDates
    \/ BuildRequests
    \/ Download
    \/ AssembleResponses
    \/ DEMExecute

Spec == Init /\ [][Next]_vars

IsInput == self.class = "SentinelHubProcessingInput"

\* sample (r, c, ch), counted from 0, of an h x w x n or h x w image
Sample(img, r, c, ch) ==
    img.data[(r * img.shape[2] + c) * atleast_3d(img).shape[3] + ch + 1]

AuxKey(i) == <<self.additional_data[i].type, self.additional_data[i].dst>>

\* C4: when execute raises, the EOPatch the caller passed is as it was before
\* the call.
C4_FailureLeavesDataset ==
    (pc = "raised" /\ eopatch # None) => eopatch = Some(OldPatch)

\* C7: after a successful execute with N kept dates, grid (W, H) and k bands
\* the timestamp has length N, the primary layer has shape (N, H, W, k) and
\* every auxiliary layer has shape (N, H, W, 1) and boolean values.
C7_Shapes ==
    (pc = "done" /\ IsInput) =>
        LET p == result[1]
            N == Len(dates)
            W == size_xy[1]
            H == size_xy[2]
            k == Len(self.bands)
        IN  /\ Len(p.timestamp) = N
            /\ k > 0 =>
                  /\ self.bands_feature[1] \in DOMAIN p.features
                  /\ p.features[self.bands_feature[1]].shape = <<N, H, W, k>>
                  /\ Len(p.features[self.bands_feature[1]].data) = N * H * W * k
            /\ \A i \in 1..Len(self.additional_data) :
                  /\ AuxKey(i) \in DOMAIN p.features
                  /\ p.features[AuxKey(i)].shape = <<N, H, W, 1>>
                  /\ p.features[AuxKey(i)].dtype = "bool"
                  /\ Len(p.features[AuxKey(i)].data) = N * H * W
                  /\ \A n \in 1..(N * H * W) : p.features[AuxKey(i)].data[n] \in BOOLEAN

\* C7: two dates, a grid wider than high, two bands and two auxiliary layers
C7_Witness ==
    /\ pc = "done"
    /\ IsInput
    /\ Len(dates) = 2
    /\ size_xy = <<2, 1>>
    /\ Len(self.bands) = 2
    /\ Len(self.additional_data) = 2
    /\ eopatch # None

\* C8: in the assembled dataset, response t is the service's image for the
\* request whose time window is centred on timestamp[t], computed with the
\* samples of the generated script; band j of the primary layer at time t comes
\* from the channel the script emits for bands[j] in that response, and every
\* auxiliary layer at time t from the channel the script emits for its source
\* band in that response.
C8_Provenance ==
    (pc = "done" /\ IsInput) =>
        LET p == result[1]
        IN  \A t \in 1..Len(dates) :
              LET payload == Tree(heap, requests[t])
                  range == payload["input"]["data"][Item(1)]["dataFilter"]["timeRange"]
                  samples == payload["evalscript"].script.samples
                  ch(b) == index(samples, <<"sample", b>>)
                  img == images[t].tif
                  f == NormFactor(images[t].userdata)
              IN  /\ range["from"].str.iso + range["to"].str.iso = 2 * p.timestamp[t]
                  /\ atleast_3d(img)
                       = ServerImage(p.timestamp[t], samples, img.shape[1], img.shape[2],
                                     atleast_3d(img).shape[3])
                  /\ \A r \in 0..(size_xy[2] - 1), c \in 0..(size_xy[1] - 1) :
                        /\ \A j \in 1..Len(self.bands) :
                              At(p.features[self.bands_feature[1]], t - 1, r, c, j - 1)
                                = round(Divide(Sample(img, r, c, ch(self.bands[j])) * f, 10), 10)
                        /\ \A i \in 1..Len(self.additional_data) :
                              At(p.features[AuxKey(i)], t - 1, r, c, 0)
                                = (Sample(img, r, c, ch(self.additional_data[i].src)) # 0)

\* C8: two dates, two bands scaled by a factor that is not 0, and behind the
\* bands an auxiliary layer that differs between two pixels and one that
\* differs between the two times
C8_Witness ==
    /\ pc = "done"
    /\ IsInput
    /\ Len(dates) = 2
    /\ Len(self.bands) = 2
    /\ Len(self.additional_data) = 2
    /\ \A t \in 1..2 : NormFactor(images[t].userdata) # 0
    /\ At(result[1].features[AuxKey(1)], 0, 0, 0, 0)
         # At(result[1].features[AuxKey(1)], 0, 0, 1, 0)
    /\ At(result[1].features[AuxKey(2)], 0, 0, 0, 0)
         # At(result[1].features[AuxKey(2)], 1, 0, 0, 0)

\* the normalization factor of a response, in 1/100000: 0 when the
\* side-metadata is absent, empty or has no norm_factor field
FactorOf(userdata) ==
    IF userdata = None THEN 0
    ELSE IF "norm_factor" \in DOMAIN userdata[1] THEN userdata[1]["norm_factor"] ELSE 0

\* C9: every stored primary value equals the raw value of its own response
\* times that response's normalization factor, exactly.
C9_ExactProduct ==
    (pc = "done" /\ IsInput) =>
        \A t \in 1..Len(dates), j \in 1..Len(self.bands),
           r \in 0..(size_xy[2] - 1), c \in 0..(size_xy[1] - 1) :
            10 * At(result[1].features[self.bands_feature[1]], t - 1, r, c, j - 1)
              = Sample(images[t].tif, r, c, j - 1) * FactorOf(images[t].userdata)

\* C9 as amended: every stored primary value is the raw value of its own
\* response times that response's normalization factor, rounded to 4 decimal
\* places (to the nearest 1/10000, a half to the even one), and the factor is
\* 0 when the side-metadata is absent or has no norm_factor; every auxiliary
\* value is whether the raw value of its channel is not 0, whatever the factor.
C9_RoundedProduct ==
    (pc = "done" /\ IsInput) =>
        \A t \in 1..Len(dates), r \in 0..(size_xy[2] - 1), c \in 0..(size_xy[1] - 1) :
            /\ \A j \in 1..Len(self.bands) :
                  LET v == At(result[1].features[self.bands_feature[1]], t - 1, r, c, j - 1)
                      exact == Sample(images[t].tif, r, c, j - 1) * FactorOf(images[t].userdata)
                  IN  /\ 10 * v - exact \in (0 - 5)..5
                      /\ 10 * v - exact \in {0 - 5, 5} => v % 2 = 0
            /\ \A i \in 1..Len(self.additional_data) :
                  At(result[1].features[AuxKey(i)], t - 1, r, c, 0)
                    = (Sample(images[t].tif, r, c, Len(self.bands) + i - 1) # 0)

\* C9: raw 100 on two dates with factors 0.5 and 2.0 is stored as 50.0 and
\* 200.0, beside an auxiliary layer
C9_Witness ==
    /\ pc = "done"
    /\ IsInput
    /\ Len(dates) = 2
    /\ self.bands = <<"B01">>
    /\ Len(self.additional_data) = 1
    /\ images[1].userdata = Some([norm_factor |-> 50000])
    /\ images[2].userdata = Some([norm_factor |-> 200000])
    /\ Sample(images[1].tif, 0, 0, 0) = 100
    /\ Sample(images[2].tif, 0, 0, 0) = 100
    /\ At(result[1].features[self.bands_feature[1]], 0, 0, 0, 0) = 500000
    /\ At(result[1].features[self.bands_feature[1]], 1, 0, 0, 0) = 2000000

\* C10: every successful execute, of either task, leaves the provenance
\* metadata on the returned dataset.
C10_Provenance ==
    pc = "done" =>
        LET m == result[1].meta_info
        IN  /\ {"service_type", "size_x", "size_y", "resolution", "maxcc",
                "time_interval", "time_difference"} \subseteq DOMAIN m
            /\ m["service_type"] = "processing"
            /\ m["size_x"] = size_xy[1]
            /\ m["size_y"] = size_xy[2]
            /\ m["resolution"] = self.resolution
            /\ m["maxcc"] = self.maxcc
            /\ m["time_interval"] = time_interval
            /\ m["time_difference"] = self.time_difference

----------------------------------------------------------------------------
(* The date resolver on its own: get_dates on every list of at most        *)
(* MaxDates dates of 0..MaxDate, for every time difference of 0..MaxDelta. *)

DateLists == SeqsUpTo(0..MaxDate, MaxDates)

InitDates ==
    /\ pc = "get_dates"
    /\ self \in {[DefaultSelf EXCEPT !.time_difference = td] : td \in 0..MaxDelta}
    /\ bbox = DefaultBBox
    /\ time_interval = <<0, MaxDate>>
    /\ eopatch = None
    /\ wfs_dates = <<>>
    /\ size_xy = <<1, 1>>
    /\ dates = <<>>
    /\ requests = <<>>
    /\ images = <<>>
    /\ result = None
    /\ error = NoError
    /\ heap = <<>>
    /\ request = 0

GetAllDates == GetDates(DateLists)

NextDates == GetAllDates

SpecDates == InitDates /\ [][NextDates]_vars

Range(s) == {s[i] : i \in 1..Len(s)}

\* the greedy left-to-right sweep: a date is kept iff its gap from the last
\* kept date exceeds td
RECURSIVE Sweep(_, _, _, _)
Sweep(s, i, last, td) ==
    IF i > Len(s) THEN <<>>
    ELSE IF s[i] - last > td THEN <<s[i]>> \o Sweep(s, i + 1, s[i], td)
    ELSE Sweep(s, i + 1, last, td)

GreedySweep(s, td) == <<s[1]>> \o Sweep(s, 2, s[1], td)

\* C1: get_dates returns the greedy sweep over the sorted dates, each date
\* compared with the last KEPT date.
C1_GreedySweep ==
    pc = "build_requests" =>
        dates = GreedySweep(sorted(wfs_dates), self.time_difference)

\* C2: the returned list is ascending, starts with the earliest discovered
\* date, every two adjacent returned dates are more than time_difference
\* apart, and a date exactly time_difference after its predecessor is not
\* returned (for a time difference of 0 such a date is a duplicate, and the
\* strict gaps say it is returned once only).
C2_StrictGaps ==
    pc = "build_requests" =>
        LET s == sorted(wfs_dates)
            td == self.time_difference
        IN  /\ Len(dates) >= 1
            /\ \A d \in Range(wfs_dates) : dates[1] <= d
            /\ dates[1] \in Range(wfs_dates)
            /\ \A i \in 1..(Len(dates) - 1) :
                  /\ dates[i] < dates[i + 1]
                  /\ dates[i + 1] - dates[i] > td
            /\ \A i \in 2..Len(s) :
                  (td > 0 /\ s[i] - s[i - 1] = td) => s[i] \notin Range(dates)

\* C2: a list with a date exactly time_difference after its predecessor was
\* resolved to at least two dates
C2_Witness ==
    /\ pc = "build_requests"
    /\ Len(dates) >= 2
    /\ self.time_difference > 0
    /\ \E i \in 2..Len(wfs_dates) :
          sorted(wfs_dates)[i] - sorted(wfs_dates)[i - 1] = self.time_difference

----------------------------------------------------------------------------
(* The grid resolver on its own.                                           *)

BBoxes ==
    {[crs |-> c, min_x |-> 0, min_y |-> 0, max_x |-> w, max_y |-> h] :
        c \in {UTM, WGS84}, w \in 1..MaxExtent, h \in 1..MaxExtent}

Sizes == {None} \cup {Some(<<w, h>>) : w \in 1..2, h \in 1..2}

Resolutions == {None} \cup {Some(r) : r \in 1..MaxRes}

InitGrid ==
    /\ pc = "resolve_size"
    /\ self \in {[DefaultSelf EXCEPT !.size = sz, !.resolution = res] :
                    sz \in Sizes, res \in Resolutions}
    /\ bbox \in BBoxes
    /\ time_interval = <<0, MaxDate>>
    /\ eopatch = None
    /\ wfs_dates = <<>>
    /\ size_xy = <<0, 0>>
    /\ dates = <<>>
    /\ requests = <<>>
    /\ images = <<>>
    /\ result = None
    /\ error = NoError
    /\ heap = <<>>
    /\ request = 0

NextGrid == ResolveSize

SpecGrid == InitGrid /\ [][NextGrid]_vars

\* C6: an explicit size is used verbatim; otherwise, with a resolution, a
\* non-UTM CRS raises the unsupported-CRS error whatever the extents; on a UTM
\* CRS extents that are exact multiples of the resolution give
\* (width / resolution, height / resolution) and any other extents raise the
\* non-integer-grid error.
C6_GridOutcomes ==
    pc # "resolve_size" =>
        LET dx == bbox.max_x - bbox.min_x
            dy == bbox.max_y - bbox.min_y
            Exact(res) == \E w \in 0..dx, h \in 0..dy : w * res = dx /\ h * res = dy
        IN  IF self.size # None
            THEN pc = "get_dates" /\ size_xy = self.size[1]
            ELSE self.resolution # None =>
                   LET res == self.resolution[1]
                   IN  IF bbox.crs # UTM
                       THEN pc = "raised" /\ error = "ValueError: Only UTM crs is supported."
                       ELSE IF Exact(res)
                       THEN /\ pc = "get_dates"
                            /\ size_xy[1] * res = dx
                            /\ size_xy[2] * res = dy
                       ELSE /\ pc = "raised"
                            /\ error = "ValueError: BBox width and height in CRS units are not multiples of resolution."

\* C6: a grid was resolved from a resolution that is not 1
C6_Witness ==
    /\ pc = "get_dates"
    /\ self.size = None
    /\ self.resolution = Some(2)
    /\ size_xy = <<2, 1>>

----------------------------------------------------------------------------
(* The request builder on its own: request_from_date called on one         *)
(* template, and the caller writing into the payloads it was given.        *)

MaxccValues == {0, 250, 555, 999, 1000}

\* the values a caller overwrites a payload's filters with
CallerTime == [str |-> [iso |-> 0 - 1, suffix |-> "caller"]]
CallerCloud == [int |-> 0 - 1]

InitRequest ==
    /\ pc = "build_requests"
    /\ self \in {[DefaultSelf EXCEPT !.size = Some(<<1, 1>>), !.maxcc = cc] :
                    cc \in MaxccValues}
    /\ bbox = DefaultBBox
    /\ time_interval = <<0, ReqMaxDate>>
    /\ eopatch = None
    /\ wfs_dates = <<>>
    /\ size_xy = <<1, 1>>
    /\ dates = <<>>
    /\ requests = <<>>
    /\ images = <<>>
    /\ result = None
    /\ error = NoError
    /\ \E n \in 1..MaxData : heap = Body(self, bbox, size_xy, n)
    /\ request = 1

\* one call of line 181: request_from_date(request, date, self.maxcc,
\* self.time_difference)
RequestFromDate ==
    /\ pc = "build_requests"
    /\ Len(requests) < MaxRequests
    /\ \E date \in 0..ReqMaxDate :
          LET r == request_from_date(heap, request, date, self.maxcc, self.time_difference)
          IN  /\ heap' = r.heap
              /\ requests' = Append(requests, r.ref)
              /\ dates' = Append(dates, date)
    /\ UNCHANGED <<pc, self, bbox, time_interval, eopatch, wfs_dates, size_xy, images,
                   result, error, request>>

FirstEntry(h, a) == h[h[h[a]["input"].ref]["data"].ref][Item(1)].ref

\* the caller: payload['input']['data'][0]['dataFilter']['timeRange']['from'] = ...
MutateTimeRange ==
    /\ \E i \in 1..Len(requests) :
          LET df == heap[FirstEntry(heap, requests[i])]["dataFilter"].ref
          IN  /\ heap[heap[df]["timeRange"].ref]["from"] # CallerTime
              /\ heap' = Store(heap, heap[df]["timeRange"].ref, "from", CallerTime)
    /\ UNCHANGED <<pc, self, bbox, time_interval, eopatch, wfs_dates, size_xy, dates,
                   requests, images, result, error, request>>

\* the caller: payload['input']['data'][0]['dataFilter']['maxCloudCoverage'] = ...
MutateCloudFilter ==
    /\ \E i \in 1..Len(requests) :
          LET df == heap[FirstEntry(heap, requests[i])]["dataFilter"].ref
          IN  /\ heap[df]["maxCloudCoverage"] # CallerCloud
              /\ heap' = Store(heap, df, "maxCloudCoverage", CallerCloud)
    /\ UNCHANGED <<pc, self, bbox, time_interval, eopatch, wfs_dates, size_xy, dates,
                   requests, images, result, error, request>>

NextRequest == RequestFromDate \/ MutateTimeRange \/ MutateCloudFilter

SpecRequest == InitRequest /\ [][NextRequest]_vars

\* the address sets of the template and of every payload
Owned(h, reqs) == <<Reach(h, {request})>> \o [i \in 1..Len(reqs) |-> Reach(h, {reqs[i]})]

\* no dict or list belongs to two of them
NoSharing(h, reqs) ==
    LET owned == Owned(h, reqs)
    IN  \A i \in 1..Len(owned) : \A j \in (i + 1)..Len(owned) : owned[i] \cap owned[j] = {}

\* a step leaves the template as it was and changes at most one of the
\* payloads that were there before it
C3_Frame ==
    /\ Tree(heap', request) = Tree(heap, request)
    /\ Cardinality({i \in 1..Len(requests) :
                       Tree(heap', requests[i]) # Tree(heap, requests[i])}) <= 1

\* C3: no step, a request_from_date call or a caller's write into a payload,
\* changes the template, no step changes two payloads, and after every step
\* the template and the payloads share no nested dict or list.
C3_Isolation == [][C3_Frame /\ NoSharing(heap', requests')]_vars

\* C3: two payloads of one template, the first overwritten by the caller, the
\* second and the template as they were built
C3_Witness ==
    /\ Len(requests) = 2
    /\ dates[1] # dates[2]
    /\ LET tree(a) == Tree(heap, a)["input"]["data"][Item(1)]["dataFilter"]
       IN  /\ tree(requests[1])["timeRange"]["from"] = CallerTime
           /\ tree(requests[1])["maxCloudCoverage"] = CallerCloud
           /\ tree(requests[2])["timeRange"]["from"]
                = PlusZ(isoformat(dates[2] - self.time_difference))
           /\ tree(requests[2])["maxCloudCoverage"] # CallerCloud
           /\ tree(request)["timeRange"]["from"] = Unset

\* C5: every input-data entry of a payload request_from_date built carries
\* maxCloudCoverage = round(maxcc * 100), rounded to nearest.
C5_RoundedPercent ==
    \A i \in 1..Len(requests) :
        \A e \in DataEntries(heap, requests[i]) :
            e["dataFilter"]["maxCloudCoverage"] # CallerCloud =>
                e["dataFilter"]["maxCloudCoverage"]
                    = [int |-> round(Divide(self.maxcc * 100, 1000), 1000)]

====
